---- MODULE Spec2Model ----
(***************************************************************************)
(* Model of rust-patience-diff (src/src/lib.rs): the recursive patience    *)
(* diff of two slices, its prefix/suffix trimming, the uniqueness filter   *)
(* and the anchor walk.  Elements are small integers ('a' is 1 and 'x' is  *)
(* 2 in the character test vector).  Rust indices are zero based and are   *)
(* kept zero based here; TLA+ sequences are one based, so a[i] of the code *)
(* is a[i + 1] of the model.                                               *)
(***************************************************************************)
EXTENDS Integers, Sequences, FiniteSets, TLC

VARIABLES a, b, tie, pc, frame, ret, uniq

vars == <<a, b, tie, pc, frame, ret, uniq>>

\* ---------------------------------------------------------------- bounds
MaxLen == 3
NumVals == 3

Vals == 1..NumVals

SeqsUpTo(n) == UNION {[1..k -> Vals] : k \in 0..n}

\* The inputs of the two unit tests of the source (lines 151-184), added to
\* the bounded inputs: "aax"/"xaa", the bracketed block, the no-anchor
\* pair and the uniqueness vector.
TestVectors ==
    { << <<1, 1, 2>>, <<2, 1, 1>> >>,
      << <<1, 10, 11, 4>>, <<1, 10, 11, 2, 3, 10, 11, 4>> >>,
      << <<1, 1>>, <<1, 1, 1>> >>,
      << <<1, 2, 3, 3, 4, 5, 1>>, <<>> >> }

\* patience_diff and unique_elements read their elements through == and
\* hash only, so a renaming of the values renames the result and nothing
\* else.  The bounded inputs are taken up to renaming: over a followed by
\* b, a value first occurs after every smaller value has occurred.
Canonical(s) ==
    \A i \in 1..Len(s) : \A v \in 1..(s[i] - 1) : \E j \in 1..(i - 1) : s[j] = v

Inputs ==
    {p \in SeqsUpTo(MaxLen) \X SeqsUpTo(MaxLen) : Canonical(p[1] \o p[2])}
    \cup TestVectors

\* Tie-break of the LCS backtrack when both neighbours of the table hold
\* the same length: step back in a, or step back in b.
Ties == {"a", "b"}

\* ------------------------------------------------------------ data model
Insertion(x) == <<"Insertion", x>>

Unchanged(x, y) == <<"Unchanged", x, y>>

Deletion(x) == <<"Deletion", x>>

Indexed(i, v) == [index |-> i, value |-> v]

\* impl PartialEq for Indexed: the value only
IndexedEq(x, y) == x.value = y.value

\* a.iter().enumerate().map(|(i, val)| Indexed { index: i, value: val })
indexed(s) == [i \in 1..Len(s) |-> Indexed(i - 1, s[i])]

\* &s[lo..hi] is defined when lo <= hi <= s.len(), and panics otherwise
InBounds(s, lo, hi) == lo >= 0 /\ lo <= hi /\ hi <= Len(s)

Slice(s, lo, hi) == IF InBounds(s, lo, hi) THEN SubSeq(s, lo + 1, hi) ELSE <<>>

Reverse(s) == [i \in 1..Len(s) |-> s[Len(s) + 1 - i]]

Min(x, y) == IF x < y THEN x ELSE y

\* ------------------------------------------------------ unique_elements
\* unique_elements is generic in T: Eq + Hash.  patience_diff instantiates
\* it with Indexed, whose equality and hash read the value only; the model
\* keeps that instance (a plain element is an Indexed compared by value).
\* counts is a list of <<key, count>> entries; a key is found by the
\* element type's equality, as the hash map does.
HasKey(counts, elem) == \E k \in 1..Len(counts) : IndexedEq(counts[k][1], elem)

KeyPos(counts, elem) == CHOOSE k \in 1..Len(counts) : IndexedEq(counts[k][1], elem)

\* faulty variant: an occupied entry is set to 1 again
count_entry_reset(counts, elem) ==
    IF HasKey(counts, elem)
    THEN LET k == KeyPos(counts, elem)
         IN [counts EXCEPT ![k] = <<counts[k][1], 1>>]
    ELSE Append(counts, <<elem, 1>>)

\* one iteration of the counting loop: Occupied adds one, Vacant inserts 1
count_entry(counts, elem) ==
    IF HasKey(counts, elem)
    THEN LET k == KeyPos(counts, elem)
         IN [counts EXCEPT ![k] = <<counts[k][1], counts[k][2] + 1>>]
    ELSE Append(counts, <<elem, 1>>)

\* counts.get(elem) == Some(&1)
CountIsOne(counts, elem) ==
    HasKey(counts, elem) /\ counts[KeyPos(counts, elem)][2] = 1

\* first pass: the counts after the loop over elems; second pass: the
\* filter over elems.iter(), in the original order
unique_elements(elems) ==
    LET after[n \in 0..Len(elems)] ==
            IF n = 0 THEN <<>> ELSE count_entry(after[n - 1], elems[n])
        counts == after[Len(elems)]
        kept[n \in 0..Len(elems)] ==
            IF n = 0 THEN <<>>
            ELSE IF CountIsOne(counts, elems[n])
                 THEN Append(kept[n - 1], elems[n])
                 ELSE kept[n - 1]
    IN kept[Len(elems)]

\* ------------------------------------------------- the lcs collaborator
\* lcs::LcsTable is an external crate.  It is modelled from its contract:
\* the dynamic-programming table of common-subsequence lengths and a
\* backtrack from the bottom-right corner that takes a match whenever the
\* two last elements are equal.  Where both neighbours hold the same
\* length the contract allows either step; tie selects it.
Max(x, y) == IF x > y THEN x ELSE y

LcsTable(x, y) ==
    LET lengths[i \in 0..Len(x), j \in 0..Len(y)] ==
            IF i = 0 \/ j = 0 THEN 0
            ELSE IF IndexedEq(x[i], y[j]) THEN 1 + lengths[i - 1, j - 1]
            ELSE Max(lengths[i, j - 1], lengths[i - 1, j])
    IN lengths

\* TRUE when the backtrack at (i, j), x[i] # y[j], steps back in y
StepsBackInB(lengths, i, j) ==
    \/ lengths[i, j - 1] > lengths[i - 1, j]
    \/ lengths[i, j - 1] = lengths[i - 1, j] /\ tie = "b"

RECURSIVE find_lcs(_, _, _, _, _)
find_lcs(x, y, lengths, i, j) ==
    IF i = 0 \/ j = 0 THEN <<>>
    ELSE IF IndexedEq(x[i], y[j])
         THEN Append(find_lcs(x, y, lengths, i - 1, j - 1), <<x[i], y[j]>>)
    ELSE IF StepsBackInB(lengths, i, j) THEN find_lcs(x, y, lengths, i, j - 1)
    ELSE find_lcs(x, y, lengths, i - 1, j)

\* the matched pairs (elem of x, elem of y), increasing in both sequences
longest_common_subsequence(x, y) == find_lcs(x, y, LcsTable(x, y), Len(x), Len(y))

RECURSIVE compute_diff(_, _, _, _, _)
compute_diff(x, y, lengths, i, j) ==
    IF i = 0 /\ j = 0 THEN <<>>
    ELSE IF i = 0 THEN Append(compute_diff(x, y, lengths, i, j - 1), Insertion(y[j]))
    ELSE IF j = 0 THEN Append(compute_diff(x, y, lengths, i - 1, j), Deletion(x[i]))
    ELSE IF IndexedEq(x[i], y[j])
         THEN Append(compute_diff(x, y, lengths, i - 1, j - 1), Unchanged(x[i], y[j]))
    ELSE IF StepsBackInB(lengths, i, j)
         THEN Append(compute_diff(x, y, lengths, i, j - 1), Insertion(y[j]))
    ELSE Append(compute_diff(x, y, lengths, i - 1, j), Deletion(x[i]))

\* LcsTable::diff: the plain LCS diff of x and y
lcs_diff(x, y) == compute_diff(x, y, LcsTable(x, y), Len(x), Len(y))

\* -------------------------------------------- common_prefix / common_suffix
\* a.zip(b).take_while(|(x, y)| x == y): the length of the matching run
PrefixLen(x, y) ==
    CHOOSE n \in 0..Min(Len(x), Len(y)) :
        /\ \A i \in 1..n : x[i] = y[i]
        /\ n = Min(Len(x), Len(y)) \/ x[n + 1] # y[n + 1]

\* faulty variant: the matched pairs are collected last pair first
common_prefix_reversed(x, y) ==
    [i \in 1..PrefixLen(x, y) |->
        Unchanged(x[PrefixLen(x, y) + 1 - i], y[PrefixLen(x, y) + 1 - i])]

common_prefix(x, y) == [i \in 1..PrefixLen(x, y) |-> Unchanged(x[i], y[i])]

\* common_prefix(a.rev(), b.rev()): the pairs come out last element first
common_suffix(x, y) == common_prefix(Reverse(x), Reverse(y))

\* faulty variant: the elements of b are mapped to Deletion
insertions_as_deletions(y) == [i \in 1..Len(y) |-> Deletion(y[i])]

\* ------------------------------------------------------- patience_diff
\* b.iter().map(DiffComponent::Insertion).collect()
insertions(y) == [i \in 1..Len(y) |-> Insertion(y[i])]

\* faulty variant: the last element of a is dropped
deletions_short(x) == [i \in 1..(Len(x) - 1) |-> Deletion(x[i])]

\* a.iter().map(DiffComponent::Deletion).collect()
deletions(x) == [i \in 1..Len(x) |-> Deletion(x[i])]

\* the LCS of the unique elements of x and of y: the anchors
anchors(x, y) ==
    longest_common_subsequence(unique_elements(indexed(x)), unique_elements(indexed(y)))

\* the closure that turns a component of the plain diff into one of ours
translate(c, x, y) ==
    IF c[1] = "Insertion" THEN Insertion(y[c[2].index + 1])
    ELSE IF c[1] = "Unchanged" THEN Unchanged(x[c[2].index + 1], y[c[3].index + 1])
    ELSE Deletion(x[c[2].index + 1])

\* faulty variant: the table of the unique elements is used again
fallback_on_unique(x, y) ==
    LET d == lcs_diff(unique_elements(indexed(x)), unique_elements(indexed(y)))
    IN [k \in 1..Len(d) |-> translate(d[k], x, y)]

fallback(x, y) ==
    LET d == lcs_diff(indexed(x), indexed(y))
    IN [k \in 1..Len(d) |-> translate(d[k], x, y)]

\* A range is the pair of slices of one recursive call:
\* &x[a_lo..a_hi] and &y[b_lo..b_hi].
Range(alo, ahi, blo, bhi) == [a_lo |-> alo, a_hi |-> ahi, b_lo |-> blo, b_hi |-> bhi]

\* rest_a = &a[common_prefix.len()..], rest_b = &b[common_prefix.len()..]
prefix_rest(x, y, n) == Range(n, Len(x), n, Len(y))

\* faulty variant: prev_b is cut with the length of a
suffix_prev_len_a(x, y, n) == Range(0, Len(x) - n, 0, Len(x) - n)

\* prev_a = &a[..a.len() - common_suffix.len()], the same for b
suffix_prev(x, y, n) == Range(0, Len(x) - n, 0, Len(y) - n)

\* faulty variant: the cursor stays on the anchor
next_index_on_anchor(match) == match.index

\* last_index = match.index + 1
next_index(match) == match.index + 1

\* the loop over the anchors and the trailing slices after it: the ranges
\* of its recursive calls, from anchor k on
RECURSIVE gaps(_, _, _, _, _, _)
gaps(x, y, lcs, k, last_index_a, last_index_b) ==
    IF k > Len(lcs)
    THEN << Range(last_index_a, Len(x), last_index_b, Len(y)) >>
    ELSE LET match_a == lcs[k][1]
             match_b == lcs[k][2]
         IN << Range(last_index_a, match_a.index, last_index_b, match_b.index) >>
            \o gaps(x, y, lcs, k + 1, next_index(match_a), next_index(match_b))

\* which path the call takes
Path(x, y) ==
    IF Len(x) = 0 \/ Len(y) = 0 THEN "base"
    ELSE IF common_prefix(x, y) # <<>> THEN "prefix"
    ELSE IF common_suffix(x, y) # <<>> THEN "suffix"
    ELSE IF anchors(x, y) = <<>> THEN "fallback"
    ELSE "walk"

\* the ranges of the recursive calls that patience_diff(x, y) makes itself
rec_calls(x, y) ==
    CASE Path(x, y) = "prefix" -> << prefix_rest(x, y, Len(common_prefix(x, y))) >>
      [] Path(x, y) = "suffix" -> << suffix_prev(x, y, Len(common_suffix(x, y))) >>
      [] Path(x, y) = "walk" -> gaps(x, y, anchors(x, y), 1, 0, 0)
      [] OTHER -> <<>>

RangeOk(x, y, r) == InBounds(x, r.a_lo, r.a_hi) /\ InBounds(y, r.b_lo, r.b_hi)

SliceA(x, r) == Slice(x, r.a_lo, r.a_hi)

SliceB(y, r) == Slice(y, r.b_lo, r.b_hi)

RECURSIVE patience_diff(_, _)
RECURSIVE walk(_, _, _, _, _)
\* ret after the loop has run over anchors 1..k (calls is rec_calls)
walk(x, y, lcs, calls, k) ==
    IF k = 0 THEN <<>>
    ELSE walk(x, y, lcs, calls, k - 1)
         \o patience_diff(SliceA(x, calls[k]), SliceB(y, calls[k]))
         \o << Unchanged(lcs[k][1].value, lcs[k][2].value) >>

patience_diff(x, y) ==
    LET calls == rec_calls(x, y)
        n == Len(calls)
    IN CASE Path(x, y) = "base" ->
              IF Len(x) = 0 /\ Len(y) = 0 THEN <<>>
              ELSE IF Len(x) = 0 THEN insertions(y)
              ELSE deletions(x)
         [] Path(x, y) = "prefix" ->
              common_prefix(x, y) \o patience_diff(SliceA(x, calls[1]), SliceB(y, calls[1]))
         [] Path(x, y) = "suffix" ->
              patience_diff(SliceA(x, calls[1]), SliceB(y, calls[1])) \o common_suffix(x, y)
         [] Path(x, y) = "fallback" -> fallback(x, y)
         [] OTHER ->
              walk(x, y, anchors(x, y), calls, n - 1)
              \o patience_diff(SliceA(x, calls[n]), SliceB(y, calls[n]))

\* TRUE when the call, or a call below it, takes a slice out of bounds
RECURSIVE panics(_, _)
panics(x, y) ==
    LET calls == rec_calls(x, y)
    IN \E k \in 1..Len(calls) :
          \/ ~RangeOk(x, y, calls[k])
          \/ panics(SliceA(x, calls[k]), SliceB(y, calls[k]))

\* ------------------------------------------------------ the state machine
\* a, b: the caller's slices; tie: the collaborator's tie-break; frame: the
\* slices of the call the recursion is in; ret: the vector patience_diff
\* returned; uniq: the vector unique_elements returned.
Init ==
    /\ \E input \in Inputs : a = input[1] /\ b = input[2]
    /\ tie \in Ties
    /\ pc = "start"
    /\ frame = <<a, b>>
    /\ ret = <<>>
    /\ uniq = <<>>

\* the caller invokes patience_diff(&a, &b)
Call ==
    /\ pc = "start"
    /\ pc' = "call"
    /\ frame' = <<a, b>>
    /\ UNCHANGED <<a, b, tie, ret, uniq>>

\* the call in frame makes one of its recursive calls; taking a slice out
\* of bounds panics
Recurse ==
    /\ pc = "call"
    /\ \E k \in 1..Len(rec_calls(frame[1], frame[2])) :
          LET r == rec_calls(frame[1], frame[2])[k]
          IN IF RangeOk(frame[1], frame[2], r)
             THEN /\ frame' = <<SliceA(frame[1], r), SliceB(frame[2], r)>>
                  /\ pc' = "call"
             ELSE /\ frame' = frame
                  /\ pc' = "panic"
    /\ UNCHANGED <<a, b, tie, ret, uniq>>

\* the recursion has reached a call that makes no call of its own (a base
\* case or the plain diff); the calls return and the caller gets the result
Return ==
    /\ pc = "call"
    /\ rec_calls(frame[1], frame[2]) = <<>>
    /\ IF panics(a, b)
       THEN pc' = "panic" /\ ret' = ret
       ELSE pc' = "done" /\ ret' = patience_diff(a, b)
    /\ UNCHANGED <<a, b, tie, frame, uniq>>

\* the caller invokes unique_elements on the indexed a
UniqueElements ==
    /\ pc = "start"
    /\ uniq' = unique_elements(indexed(a))
    /\ pc' = "uniq"
    /\ UNCHANGED <<a, b, tie, frame, ret>>

Next == Call \/ Recurse \/ Return \/ UniqueElements

Spec == Init /\ [][Next]_vars

\* ------------------------------------------------- reading a result back
IsLeft(c) == c[1] \in {"Deletion", "Unchanged"}

IsRight(c) == c[1] \in {"Insertion", "Unchanged"}

RightElem(c) == IF c[1] = "Unchanged" THEN c[3] ELSE c[2]

\* the Deletion and Unchanged-left elements of d, in output order
LeftOf(d) == LET l == SelectSeq(d, IsLeft) IN [i \in 1..Len(l) |-> l[i][2]]

\* the Insertion and Unchanged-right elements of d, in output order
RightOf(d) == LET r == SelectSeq(d, IsRight) IN [i \in 1..Len(r) |-> RightElem(r[i])]

Occurrences(s, v) == Cardinality({i \in 1..Len(s) : s[i] = v})

Tagged(d, t) == Cardinality({i \in 1..Len(d) : d[i][1] = t})

ValuesOf(s) == {s[i] : i \in 1..Len(s)}

Pos(s, v) == CHOOSE i \in 1..Len(s) : s[i] = v

\* the values that occur exactly once in a and exactly once in b
UniqueInBoth == {v \in ValuesOf(a) : Occurrences(a, v) = 1 /\ Occurrences(b, v) = 1}

\* C1: the Deletion and Unchanged-left elements of the result, in output
\* order, are the sequence a, and the Insertion and Unchanged-right
\* elements are the sequence b.
C1_Reconstruction ==
    pc = "done" => LeftOf(ret) = a /\ RightOf(ret) = b

\* C2: when the values unique in both a and b occur in the same relative
\* order in a and in b, each of them is in the result inside an Unchanged
\* pair and is not both deleted and inserted.
C2_AnchorUniqueness ==
    (/\ pc = "done"
     /\ \A v, w \in UniqueInBoth : Pos(a, v) < Pos(a, w) <=> Pos(b, v) < Pos(b, w))
    => \A v \in UniqueInBoth :
          /\ \E i \in 1..Len(ret) : ret[i] = Unchanged(v, v)
          /\ ~(/\ \E i \in 1..Len(ret) : ret[i] = Deletion(v)
               /\ \E i \in 1..Len(ret) : ret[i] = Insertion(v))

\* The engine of C3: patience_diff without the common-prefix and the
\* common-suffix steps, with the same anchors, walk and plain diff.
RECURSIVE untrimmed_diff(_, _)
RECURSIVE untrimmed_walk(_, _, _, _, _)
untrimmed_walk(x, y, lcs, calls, k) ==
    IF k = 0 THEN <<>>
    ELSE untrimmed_walk(x, y, lcs, calls, k - 1)
         \o untrimmed_diff(SliceA(x, calls[k]), SliceB(y, calls[k]))
         \o << Unchanged(lcs[k][1].value, lcs[k][2].value) >>

untrimmed_diff(x, y) ==
    IF Len(x) = 0 /\ Len(y) = 0 THEN <<>>
    ELSE IF Len(x) = 0 THEN insertions(y)
    ELSE IF Len(y) = 0 THEN deletions(x)
    ELSE IF anchors(x, y) = <<>> THEN fallback(x, y)
    ELSE LET calls == gaps(x, y, anchors(x, y), 1, 0, 0)
             n == Len(calls)
         IN untrimmed_walk(x, y, anchors(x, y), calls, n - 1)
            \o untrimmed_diff(SliceA(x, calls[n]), SliceB(y, calls[n]))

\* C3: the result is the one of the engine without affix trimming.
C3_TrimmingTransparent ==
    pc = "done" => ret = untrimmed_diff(a, b)

\* C4: the diff of a sequence with itself is Unchanged(a[i], a[i]) for
\* each i in index order, and nothing else.
C4_Identity ==
    (pc = "done" /\ a = b) => ret = [i \in 1..Len(a) |-> Unchanged(a[i], a[i])]

C4_Witness == pc = "done" /\ a = b /\ Len(a) >= 2 /\ a[1] # a[2]

\* C5: two empty inputs give the empty result; an empty a gives the
\* elements of b as Insertions in order; an empty b gives the elements of a
\* as Deletions in order.
C5_EmptyInput ==
    pc = "done" =>
        /\ (a = <<>> /\ b = <<>>) => ret = <<>>
        /\ (a = <<>> /\ b # <<>>) =>
              /\ Len(ret) = Len(b)
              /\ \A i \in 1..Len(b) : ret[i] = <<"Insertion", b[i]>>
        /\ (a # <<>> /\ b = <<>>) =>
              /\ Len(ret) = Len(a)
              /\ \A i \in 1..Len(a) : ret[i] = <<"Deletion", a[i]>>

C5_Witness == pc = "done" /\ a = <<>> /\ Len(b) >= 2 /\ b[1] # b[2]

\* C6: no call panics; every recursive call of every call the recursion
\* reaches takes slices whose ranges are well formed and whose combined
\* length is strictly smaller than the combined length of its caller's.
C6_Totality ==
    /\ pc # "panic"
    /\ pc = "call" =>
          \A k \in 1..Len(rec_calls(frame[1], frame[2])) :
              LET r == rec_calls(frame[1], frame[2])[k]
              IN /\ 0 <= r.a_lo /\ r.a_lo <= r.a_hi /\ r.a_hi <= Len(frame[1])
                 /\ 0 <= r.b_lo /\ r.b_lo <= r.b_hi /\ r.b_hi <= Len(frame[2])
                 /\ (r.a_hi - r.a_lo) + (r.b_hi - r.b_lo) < Len(frame[1]) + Len(frame[2])

\* a nested call, reached through the walk of its caller, that recurses again
C6_Witness ==
    /\ pc = "call"
    /\ frame # <<a, b>>
    /\ Path(a, b) = "walk"
    /\ rec_calls(frame[1], frame[2]) # <<>>

\* the elements of s strictly between the zero-based positions lo and hi
Between(s, lo, hi) == [i \in 1..(hi - lo - 1) |-> s[lo + 1 + i]]

\* zero-based position in a (in b) of anchor k of the top-level call;
\* anchor 0 stands before the first element
AnchorA(k) == IF k = 0 THEN -1 ELSE anchors(a, b)[k][1].index

AnchorB(k) == IF k = 0 THEN -1 ELSE anchors(a, b)[k][2].index

\* diff of gap 1, Unchanged of anchor 1, ..., diff of gap k, Unchanged of anchor k
RECURSIVE Spliced(_)
Spliced(k) ==
    IF k = 0 THEN <<>>
    ELSE Spliced(k - 1)
         \o patience_diff(Between(a, AnchorA(k - 1), AnchorA(k)),
                          Between(b, AnchorB(k - 1), AnchorB(k)))
         \o << <<"Unchanged", a[AnchorA(k) + 1], b[AnchorB(k) + 1]>> >>

\* a and b are nonempty and share neither a first nor a last element
NoAffix == a # <<>> /\ b # <<>> /\ a[1] # b[1] /\ a[Len(a)] # b[Len(b)]

\* C7: with no common prefix or suffix and a nonempty anchor list, the
\* anchors increase strictly in both sequences and the result is the diffs
\* of the gaps between consecutive anchors, each followed by the Unchanged
\* of its anchor, then the diff of the trailing gap; the two test vectors
\* of the source give the results the tests assert.
C7_AnchorWalk ==
    pc = "done" =>
        /\ (NoAffix /\ anchors(a, b) # <<>>) =>
              LET n == Len(anchors(a, b))
              IN /\ \A k \in 1..n : AnchorA(k - 1) < AnchorA(k) /\ AnchorB(k - 1) < AnchorB(k)
                 /\ AnchorA(n) < Len(a) /\ AnchorB(n) < Len(b)
                 /\ ret = Spliced(n) \o patience_diff(Between(a, AnchorA(n), Len(a)),
                                                      Between(b, AnchorB(n), Len(b)))
        /\ (a = <<1, 1, 2>> /\ b = <<2, 1, 1>>) =>
              ret = << <<"Deletion", 1>>, <<"Deletion", 1>>, <<"Unchanged", 2, 2>>,
                       <<"Insertion", 1>>, <<"Insertion", 1>> >>
        /\ (a = <<1, 10, 11, 4>> /\ b = <<1, 10, 11, 2, 3, 10, 11, 4>>) =>
              ret = << <<"Unchanged", 1, 1>>, <<"Unchanged", 10, 10>>,
                       <<"Unchanged", 11, 11>>, <<"Insertion", 2>>, <<"Insertion", 3>>,
                       <<"Insertion", 10>>, <<"Insertion", 11>>, <<"Unchanged", 4, 4>> >>

\* two anchors with nonempty gaps around them
C7_Witness ==
    /\ pc = "done"
    /\ NoAffix
    /\ Len(anchors(a, b)) >= 2
    /\ Len(ret) > Len(anchors(a, b))

\* the subsequence of s at the positions S
SubseqAt(s, S) ==
    [k \in 1..Cardinality(S) |-> s[CHOOSE i \in S : Cardinality({j \in S : j < i}) = k - 1]]

Subseqs(s) == {SubseqAt(s, S) : S \in SUBSET (1..Len(s))}

\* the length of a longest common subsequence of x and y, by enumeration
LongestCommon(x, y) ==
    LET common == Subseqs(x) \cap Subseqs(y)
    IN CHOOSE n \in 0..Len(x) :
          /\ \E c \in common : Len(c) = n
          /\ \A c \in common : Len(c) <= n

\* the plain diff of a and b read by value
PlainByValue ==
    LET d == lcs_diff(indexed(a), indexed(b))
    IN [k \in 1..Len(d) |->
          IF d[k][1] = "Unchanged" THEN <<"Unchanged", d[k][2].value, d[k][3].value>>
          ELSE <<d[k][1], d[k][2].value>>]

\* C8: with no common prefix or suffix and no anchor, no value is unique
\* in both sequences, the call makes no recursive call and returns the
\* plain diff of a and b, which holds |LCS(a, b)| Unchanged pairs,
\* |a| - |LCS(a, b)| Deletions and |b| - |LCS(a, b)| Insertions; the diff
\* of [1,1] and [1,1,1] holds two Unchanged(1,1) and one Insertion(1).
C8_Fallback ==
    pc = "done" =>
        /\ (NoAffix /\ anchors(a, b) = <<>>) =>
              /\ UniqueInBoth = {}
              /\ frame = <<a, b>>
              /\ ret = PlainByValue
              /\ Tagged(ret, "Unchanged") = LongestCommon(a, b)
              /\ Tagged(ret, "Deletion") = Len(a) - LongestCommon(a, b)
              /\ Tagged(ret, "Insertion") = Len(b) - LongestCommon(a, b)
              /\ Len(ret) = Len(a) + Len(b) - LongestCommon(a, b)
        /\ (a = <<1, 1>> /\ b = <<1, 1, 1>>) =>
              /\ Len(ret) = 3
              /\ Cardinality({i \in 1..3 : ret[i] = <<"Unchanged", 1, 1>>}) = 2
              /\ Cardinality({i \in 1..3 : ret[i] = <<"Insertion", 1>>}) = 1

C8_Witness ==
    /\ pc = "done"
    /\ NoAffix
    /\ anchors(a, b) = <<>>
    /\ LongestCommon(a, b) >= 2
    /\ Len(a) > LongestCommon(a, b)

IsOnce(e) == Occurrences(a, e.value) = 1

\* C9: unique_elements keeps exactly the elements whose value occurs once
\* in the whole sequence, in their order and with their own index; the
\* test vector [1,2,3,3,4,5,1] gives [2,4,5].
C9_UniqueFilter ==
    pc = "uniq" =>
        /\ uniq = SelectSeq([i \in 1..Len(a) |-> [index |-> i - 1, value |-> a[i]]], IsOnce)
        /\ a = <<1, 2, 3, 3, 4, 5, 1>> =>
              [i \in 1..Len(uniq) |-> uniq[i].value] = <<2, 4, 5>>

\* a value is repeated, and an element after the repeats is kept
C9_Witness ==
    /\ pc = "uniq"
    /\ \E v \in ValuesOf(a) : Occurrences(a, v) >= 2
    /\ \E i \in 1..Len(uniq) : uniq[i].index >= 2

\* C10: every Unchanged pair holds two equal values; the Deletion and
\* Unchanged-left elements are the elements of a as a multiset, and the
\* Insertion and Unchanged-right elements are those of b.
C10_Conservation ==
    pc = "done" =>
        /\ \A i \in 1..Len(ret) : ret[i][1] = "Unchanged" => ret[i][2] = ret[i][3]
        /\ \A v \in ValuesOf(a) \cup ValuesOf(LeftOf(ret)) :
              Occurrences(LeftOf(ret), v) = Occurrences(a, v)
        /\ \A v \in ValuesOf(b) \cup ValuesOf(RightOf(ret)) :
              Occurrences(RightOf(ret), v) = Occurrences(b, v)
        /\ Tagged(ret, "Unchanged") + Tagged(ret, "Deletion") = Len(a)
        /\ Tagged(ret, "Unchanged") + Tagged(ret, "Insertion") = Len(b)

\* the elements are kept although their order is not
C10_Witness == pc = "done" /\ LeftOf(ret) # a /\ Tagged(ret, "Deletion") >= 1

====
